---- MODULE Spec2Model ----
(***************************************************************************)
(* A model of multilint (src/multilint.py): the orchestrator Multilint,    *)
(* its plugins (the ToolRunner subclasses), the per-file aggregation of    *)
(* ISortRunner, the configuration search find_pyproject_toml and main.     *)
(*                                                                         *)
(* Four specifications share the variables:                                *)
(*   Spec       main / Multilint.__init__ / run_all_tools / run_tool and   *)
(*              the plugins' acquisition and release of global state,      *)
(*              ISortRunner.run being run file by file;                    *)
(*   SpecISort  the per-file loop of ISortRunner.run on its own;           *)
(*   SpecFind   the recursion of find_pyproject_toml;                      *)
(*   SpecWrite  the writes to one TextIOLogger.                            *)
(***************************************************************************)
EXTENDS Integers, Sequences, FiniteSets, TLC

VARIABLES
    pc,            \* position of the running code
    caller,        \* "main" (main()) or "api" (a direct user of Multilint)
    config_names,  \* Multilint._multilint_config.get("tool_order", [])
    tool_order,    \* Multilint._tool_order
    order,         \* run_all_tools: the order being iterated
    i,             \* run_all_tools: position of the for loop in order
    results,       \* run_all_tools: the dict results, as <<key, value>> pairs in insertion order
    globals,       \* sys.stdout, sys.stderr, pydocstyle.utils.log, pydocstyle.checker.log
    saved,         \* the originals a running plugin has saved (its locals / its patchers)
    error,         \* the exception that left the program, "" when none
    retcode,       \* main: the exit status, -1 while not computed
    invoked,       \* history: tools whose runner's run() was called, in call order
    returned,      \* history: tools whose runner's run() returned an outcome
    pre_globals,   \* history: globals at the moment of the latest run() call
    isort_results, \* ISortRunner.run: the set results
    isort_file,    \* ISortRunner.run: the file isort_file is working on, 0 when none
    isort_ret,     \* ISortRunner.run: the returned ToolResult, "" while running
    isort_calls,   \* history: the number of isort_file calls that have ended
    isort_evals,   \* history: <<file, raised>> for every isort_file call that returned
                   \* or raised an Exception
    fs,            \* the directory chain: fs[d] is what "pyproject.toml" is in the directory at depth d
    find_start,    \* find_pyproject_toml: the argument of the outermost call
    find_path,     \* find_pyproject_toml: the argument of the current call
    find_ret,      \* find_pyproject_toml: the returned value
    examined,      \* history: depths of the directories whose pyproject.toml was tested
    io_level,      \* TextIOLogger._level
    io_records,    \* the records the TextIOLogger has emitted, oldest first
    io_ret,        \* TextIOLogger.write: the value returned by the latest call
    io_written     \* history: the chunks given to TextIOLogger.write, in call order

vars == <<pc, caller, config_names, tool_order, order, i, results, globals, saved, error, retcode,
          invoked, returned, pre_globals,
          isort_results, isort_file, isort_ret, isort_calls, isort_evals,
          fs, find_start, find_path, find_ret, examined,
          io_level, io_records, io_ret, io_written>>

mainVars == <<caller, config_names, tool_order, order, i, results, globals, saved, error, retcode,
              invoked, returned, pre_globals>>
isortVars == <<isort_results, isort_file, isort_ret, isort_calls, isort_evals>>
findVars == <<fs, find_start, find_path, find_ret, examined>>
writeVars == <<io_level, io_records, io_ret, io_written>>

(***************************************************************************)
(* Bounds of the model.                                                    *)
(***************************************************************************)
\* longest tool_order of a configuration and longest order given to run_all_tools
MaxOrder == 3
\* most files isort_files.find yields in one run, and the number of distinct files
MaxFiles == 5
\* depth of the deepest directory of the chain (the filesystem root has depth 0)
MaxDepth == 3
\* most files isort_files.find yields to an ISortRunner run by run_all_tools
MaxRunFiles == 2
\* most text written to one TextIOLogger: every write counts for its characters
\* plus one
MaxText == 7

RECURSIVE SeqsUpTo(_, _)
SeqsUpTo(S, n) ==
    IF n = 0 THEN {<<>>}
    ELSE LET shorter == SeqsUpTo(S, n - 1)
         IN  shorter \cup {Append(s, x) : s \in {t \in shorter : Len(t) = n - 1}, x \in S}

Range(s) == {s[k] : k \in 1..Len(s)}

(***************************************************************************)
(* class Tool, class ToolResult                                            *)
(***************************************************************************)
Tool == {"AUTOFLAKE", "BLACK", "ISORT", "MULTILINT", "MYPY", "PYDOCSTYLE", "PYLINT", "PYUPGRADE"}

ToolValue ==
    [t \in Tool |->
        CASE t = "AUTOFLAKE"  -> "autoflake"
          [] t = "BLACK"      -> "black"
          [] t = "ISORT"      -> "isort"
          [] t = "MULTILINT"  -> "multilint"
          [] t = "MYPY"       -> "mypy"
          [] t = "PYDOCSTYLE" -> "pydocstyle"
          [] t = "PYLINT"     -> "pylint"
          [] t = "PYUPGRADE"  -> "pyupgrade"]

ToolResult == {"SUCCESS", "SUCCESS_PARTIAL", "FAILURE"}

\* Tool(t): the member whose value is the string t; ValueError when there is none
IsToolValue(name) == \E t \in Tool : ToolValue[t] = name
ToolOf(name) == CHOOSE t \in Tool : ToolValue[t] = name

\* the strings a configuration may list under tool_order: the values of Tool and one
\* string that is the value of no member
ConfigNames == {ToolValue[t] : t \in Tool} \cup {"flake8"}

(***************************************************************************)
(* TOOL_RUNNERS                                                            *)
(***************************************************************************)
TOOL_RUNNERS ==
    [t \in Tool \ {"MULTILINT"} |->
        CASE t = "AUTOFLAKE"  -> "AutoflakeRunner"
          [] t = "BLACK"      -> "BlackRunner"
          [] t = "ISORT"      -> "ISortRunner"
          [] t = "MYPY"       -> "MypyRunner"
          [] t = "PYDOCSTYLE" -> "PydocstyleRunner"
          [] t = "PYLINT"     -> "PylintRunner"
          [] t = "PYUPGRADE"  -> "PyupgradeRunner"]

(***************************************************************************)
(* Multilint.DEFAULT_TOOL_ORDER                                            *)
(***************************************************************************)
DEFAULT_TOOL_ORDER ==
    <<"PYUPGRADE", "AUTOFLAKE", "ISORT", "BLACK", "MYPY", "PYLINT", "PYDOCSTYLE">>


(***************************************************************************)
(* Multilint.__init__: the execution plan                                  *)
(***************************************************************************)
\* [Tool(t) for t in names] raises ValueError when a name is the value of no member
ToolOrderRejected(names) == \E k \in 1..Len(names) : ~IsToolValue(names[k])

ParsedToolOrder(names) == [k \in 1..Len(names) |-> ToolOf(names[k])]

\* self._tool_order, or the ValueError that leaves __init__
ToolOrderOf_falls_back(names) ==
    IF ToolOrderRejected(names)
    THEN [raised |-> FALSE, value |-> DEFAULT_TOOL_ORDER]
    ELSE [raised |-> FALSE,
          value  |-> IF Len(ParsedToolOrder(names)) = 0 THEN DEFAULT_TOOL_ORDER
                     ELSE ParsedToolOrder(names)]

ToolOrderOf_ignores_config(names) ==
    IF ToolOrderRejected(names)
    THEN [raised |-> TRUE, value |-> <<>>]
    ELSE [raised |-> FALSE, value |-> DEFAULT_TOOL_ORDER]

ToolOrderOf(names) ==
    IF ToolOrderRejected(names)
    THEN [raised |-> TRUE, value |-> <<>>]
    ELSE [raised |-> FALSE,
          value  |-> IF Len(ParsedToolOrder(names)) = 0 THEN DEFAULT_TOOL_ORDER
                     ELSE ParsedToolOrder(names)]

(***************************************************************************)
(* The dict results of run_all_tools: results[tool] = value keeps the      *)
(* position of a key that is already present and appends a new key.        *)
(***************************************************************************)
DictKeys(d) == [k \in 1..Len(d) |-> d[k][1]]
DictKeySet(d) == {d[k][1] : k \in 1..Len(d)}
DictGet(d, key) == LET k == CHOOSE k \in 1..Len(d) : d[k][1] = key IN d[k][2]
DictValues(d) == {d[k][2] : k \in 1..Len(d)}

DictSet_always_append(d, key, value) == Append(d, <<key, value>>)

DictSet(d, key, value) ==
    IF key \in DictKeySet(d)
    THEN [k \in 1..Len(d) |-> IF d[k][1] = key THEN <<key, value>> ELSE d[k]]
    ELSE Append(d, <<key, value>>)

(***************************************************************************)
(* The global state the plugins substitute while the wrapped tool runs.    *)
(***************************************************************************)
InitialGlobals ==
    [stdout      |-> "sys.stdout",
     stderr      |-> "sys.stderr",
     utils_log   |-> "pydocstyle.log",
     checker_log |-> "pydocstyle.log"]

NoSaved == [n \in {} |-> ""]

\* the originals a runner keeps on entry: BlackRunner's sys_stdout_orig and
\* sys_stderr_orig, PydocstyleRunner's pydocstyle_log_orig, the originals of patch()
Saved(tool, g) ==
    CASE tool = "BLACK"      -> [stdout |-> g.stdout, stderr |-> g.stderr]
      [] tool = "PYLINT"     -> [stdout |-> g.stdout]
      [] tool = "ISORT"      -> [stdout |-> g.stdout]
      [] tool = "PYDOCSTYLE" -> [utils_log |-> g.utils_log, stdout |-> g.stdout]
      [] tool = "PYUPGRADE"  -> [stdout |-> g.stdout, stderr |-> g.stderr]
      [] OTHER               -> NoSaved

\* what is installed while the wrapped tool runs (for ISortRunner, while
\* isort_file runs)
Installed(tool, g) ==
    CASE tool = "BLACK"      -> [g EXCEPT !.stdout = "tool.black", !.stderr = "tool.black"]
      [] tool = "PYLINT"     -> [g EXCEPT !.stdout = "tool.pylint"]
      [] tool = "ISORT"      -> [g EXCEPT !.stdout = "tool.isort"]
      [] tool = "PYDOCSTYLE" -> [g EXCEPT !.utils_log = "info_logger",
                                          !.checker_log = "info_logger",
                                          !.stdout = "tool.pydocstyle"]
      [] tool = "PYUPGRADE"  -> [g EXCEPT !.stdout = "tool.pyupgrade",
                                          !.stderr = "tool.pyupgrade"]
      [] OTHER               -> g

Released_black_keeps_stderr(tool, g, s) ==
    CASE tool = "BLACK"      -> [g EXCEPT !.stdout = s.stdout]
      [] tool = "PYLINT"     -> [g EXCEPT !.stdout = s.stdout]
      [] tool = "ISORT"      -> [g EXCEPT !.stdout = s.stdout]
      [] tool = "PYDOCSTYLE" -> [g EXCEPT !.stdout = s.stdout,
                                          !.utils_log = s.utils_log,
                                          !.checker_log = s.utils_log]
      [] tool = "PYUPGRADE"  -> [g EXCEPT !.stdout = s.stdout, !.stderr = s.stderr]
      [] OTHER               -> g

\* what the finally clauses and the exits of the patch() contexts put back, on a
\* return and on an exception alike
Released(tool, g, s) ==
    CASE tool = "BLACK"      -> [g EXCEPT !.stdout = s.stdout, !.stderr = s.stderr]
      [] tool = "PYLINT"     -> [g EXCEPT !.stdout = s.stdout]
      [] tool = "ISORT"      -> [g EXCEPT !.stdout = s.stdout]
      [] tool = "PYDOCSTYLE" -> [g EXCEPT !.stdout = s.stdout,
                                          !.utils_log = s.utils_log,
                                          !.checker_log = s.utils_log]
      [] tool = "PYUPGRADE"  -> [g EXCEPT !.stdout = s.stdout, !.stderr = s.stderr]
      [] OTHER               -> g


(***************************************************************************)
(* ISortRunner.run: the per-file results and their aggregation             *)
(***************************************************************************)
Files == 1..MaxFiles
ErrMsgs == {"", "boom"}

\* ISortResult(Path(file), ToolResult.SUCCESS) or
\* ISortResult(Path(file), ToolResult.FAILURE, message of the exception)
ISortResult(file, raised, msg) ==
    [pyfile |-> file,
     result |-> IF raised THEN "FAILURE" ELSE "SUCCESS",
     errmsg |-> IF raised THEN msg ELSE ""]

ISortFailed(res) == {r \in res : r.result = "FAILURE"}

ISortOutcome_any_failure_fails(res) ==
    IF Cardinality(ISortFailed(res)) = Cardinality(res) THEN "FAILURE"
    ELSE IF 0 < Cardinality(ISortFailed(res)) THEN "FAILURE"
    ELSE "SUCCESS"

ISortOutcome(res) ==
    IF Cardinality(ISortFailed(res)) = Cardinality(res) THEN "FAILURE"
    ELSE IF 0 < Cardinality(ISortFailed(res))
            /\ Cardinality(ISortFailed(res)) < Cardinality(res) THEN "SUCCESS_PARTIAL"
    ELSE "SUCCESS"

(***************************************************************************)
(* How each runner's run() ends, given how the wrapped tool ended:         *)
(*   [kind |-> "return", code |-> c]   it returned the integer c           *)
(*   [kind |-> "return_none"]          it returned None                    *)
(*   [kind |-> "exit", code |-> c]     it raised SystemExit(c)             *)
(*   [kind |-> "exit_none"]            it raised SystemExit(None)          *)
(*   [kind |-> "raise"]                it raised another exception         *)
(* The value is a ToolResult, or the name of the exception that leaves     *)
(* run().                                                                  *)
(***************************************************************************)
ExitCodes == 0..2

ToolEnds ==
    [kind : {"return", "exit"}, code : ExitCodes]
        \cup {[kind |-> k, code |-> 0] : k \in {"return_none", "exit_none", "raise"}}

ZeroIsSuccess(code) == IF code = 0 THEN "SUCCESS" ELSE "FAILURE"

\* catches SystemExit and nothing else, and does not read the returned value:
\* BlackRunner, MypyRunner, PylintRunner (sysexit.code == 0 is False for None)
CatchesSystemExit(end) ==
    CASE end.kind \in {"return", "return_none"} -> "SUCCESS"
      [] end.kind = "exit"                      -> ZeroIsSuccess(end.code)
      [] end.kind = "exit_none"                 -> "FAILURE"
      [] OTHER                                  -> "Exception"

\* AutoflakeRunner catches nothing and compares the returned value with 0
\* (None == 0 is False)
AutoflakeOutcome(end) ==
    CASE end.kind = "return"                  -> ZeroIsSuccess(end.code)
      [] end.kind = "return_none"             -> "FAILURE"
      [] end.kind \in {"exit", "exit_none"}   -> "SystemExit"
      [] OTHER                                -> "Exception"

\* PyupgradeRunner catches nothing and ors the returned value into retcode
\* (retcode |= None raises TypeError)
PyupgradeOutcome(end) ==
    CASE end.kind = "return"                  -> ZeroIsSuccess(end.code)
      [] end.kind = "return_none"             -> "TypeError"
      [] end.kind \in {"exit", "exit_none"}   -> "SystemExit"
      [] OTHER                                -> "Exception"

\* PydocstyleRunner indexes [SUCCESS, SUCCESS_PARTIAL, FAILURE] by the returned
\* value (a list index None raises TypeError)
PydocstyleOutcome(end) ==
    CASE end.kind = "return" ->
            <<"SUCCESS", "SUCCESS_PARTIAL", "FAILURE">>[end.code + 1]
      [] end.kind = "return_none"             -> "TypeError"
      [] end.kind \in {"exit", "exit_none"}   -> "SystemExit"
      [] OTHER                                -> "Exception"

RunnerEnd(tool, end) ==
    CASE tool \in {"BLACK", "MYPY", "PYLINT"}  -> CatchesSystemExit(end)
      [] tool = "AUTOFLAKE"                    -> AutoflakeOutcome(end)
      [] tool = "PYUPGRADE"                    -> PyupgradeOutcome(end)
      [] tool = "PYDOCSTYLE"                   -> PydocstyleOutcome(end)

\* the exceptions `except Exception` does not catch
UncaughtByExcept == {"KeyboardInterrupt", "SystemExit", "GeneratorExit"}

(***************************************************************************)
(* main: the exit status                                                   *)
(***************************************************************************)
RetCode_partial_passes(d) ==
    IF \A r \in DictValues(d) : r \in {"SUCCESS", "SUCCESS_PARTIAL"} THEN 0 ELSE 1

RetCode(d) == IF \A r \in DictValues(d) : r = "SUCCESS" THEN 0 ELSE 1

(***************************************************************************)
(* run_all_tools: the step of the for loop                                 *)
(***************************************************************************)
NextPosition_retry_on_failure(pos, result) == IF result = "FAILURE" THEN pos ELSE pos + 1

NextPosition(pos, result) == pos + 1

(***************************************************************************)
(* find_pyproject_toml: paths and the returned value                       *)
(*   a path is [depth, form]: the directory at that depth of the chain,    *)
(*   written as an absolute path ("abs"), as a relative one ("rel", the    *)
(*   working directory being that directory) or, as Multilint.__init__     *)
(*   writes it, as the relative path of the file pyproject.toml in the     *)
(*   working directory ("relfile")                                         *)
(***************************************************************************)
Depths == 0..MaxDepth
PathForms == {"abs", "rel", "relfile"}
Entries == {"none", "dir", "file"}

FindNone == [found |-> FALSE, depth |-> -1]
FindFound(d) == [found |-> TRUE, depth |-> d]

\* path == Path("/")
IsRootPath(path) == path.form = "abs" /\ path.depth = 0

\* filepath.exists() and filepath.is_file(), filepath being path / "pyproject.toml"
\* (nothing lies under a pyproject.toml that is itself a file or a directory)
HasConfigFile(tree, path) == path.form # "relfile" /\ tree[path.depth] = "file"

\* path.resolve().parent
ResolvedParent(path) ==
    [depth |-> IF path.form = "relfile" THEN path.depth
               ELSE IF path.depth = 0 THEN 0 ELSE path.depth - 1,
     form  |-> "abs"]

(***************************************************************************)
(* TextIOLogger.write: a chunk is a sequence of characters, a line too     *)
(***************************************************************************)
Chars == {"a", "b", "\n"}

\* the levels of the logging module above NOTSET; make_logger is always called
\* with logging.INFO (20)
LogLevels == {10, 20, 30, 40, 50}

\* msg.split("\n")
RECURSIVE SplitNewline(_)
SplitNewline(msg) ==
    IF Len(msg) = 0 THEN << <<>> >>
    ELSE LET rest == SplitNewline(Tail(msg))
         IN  IF Head(msg) = "\n" THEN << <<>> >> \o rest
             ELSE << <<Head(msg)>> \o rest[1] >> \o Tail(rest)

\* filter(None, segments)
FilterNone_keeps_all(segments) == segments

FilterNone(segments) == SelectSeq(segments, LAMBDA seg : Len(seg) > 0)

\* the lines write(msg) logs, in order
LoggedLines(msg) ==
    IF msg \in {<<>>, <<"\n">>} THEN <<>> ELSE FilterNone(SplitNewline(msg))

\* the value write(msg) returns
WriteReturn(msg) == IF msg \in {<<>>, <<"\n">>} THEN 0 ELSE Len(msg)

\* self.log(self._level, line)
LogRecord(level, line) == [level |-> level, msg |-> line]

RECURSIVE TextCost(_)
TextCost(chunks) ==
    IF Len(chunks) = 0 THEN 0 ELSE Len(Head(chunks)) + 1 + TextCost(Tail(chunks))

\* the variables of the other specifications, at rest
MainIdle ==
    /\ caller = "main"
    /\ config_names = <<>>
    /\ tool_order = <<>>
    /\ order = <<>>
    /\ i = 0
    /\ results = <<>>
    /\ error = ""
    /\ retcode = -1
    /\ invoked = <<>>
    /\ returned = <<>>
    /\ pre_globals = InitialGlobals

ISortIdle ==
    /\ isort_results = {}
    /\ isort_file = 0
    /\ isort_ret = ""
    /\ isort_calls = 0
    /\ isort_evals = {}

WriteIdle ==
    /\ io_level = 20
    /\ io_records = <<>>
    /\ io_ret = 0
    /\ io_written = <<>>

FindIdle ==
    /\ fs = [d \in Depths |-> "none"]
    /\ find_start = [depth |-> 0, form |-> "abs"]
    /\ find_path = [depth |-> 0, form |-> "abs"]
    /\ find_ret = FindNone
    /\ examined = <<>>

(***************************************************************************)
(* Spec: main, Multilint.__init__, run_all_tools, run_tool                 *)
(***************************************************************************)
Init ==
    /\ pc = "start"
    /\ MainIdle
    /\ globals = InitialGlobals
    /\ saved = NoSaved
    /\ ISortIdle
    /\ WriteIdle
    /\ FindIdle

\* Multilint(src_paths): names is what the parsed configuration gives for
\* tool.multilint.tool_order, [] when the key or the file is absent
Construct(names, who) ==
    /\ pc = "start"
    /\ caller' = who
    /\ config_names' = names
    /\ IF ToolOrderOf(names).raised
       THEN /\ pc' = "aborted"
            /\ error' = "ValueError"
            /\ UNCHANGED tool_order
       ELSE /\ pc' = "constructed"
            /\ tool_order' = ToolOrderOf(names).value
            /\ UNCHANGED error
    /\ UNCHANGED <<order, i, results, globals, saved, retcode, invoked, returned, pre_globals>>
    /\ UNCHANGED <<isortVars, findVars, writeVars>>

\* run_all_tools(order): given is <<>> for order=None, <<o>> for an explicit order o
RunAllTools(given) ==
    /\ pc = "constructed"
    /\ results' = <<>>
    /\ order' = IF given = <<>> THEN tool_order ELSE given[1]
    /\ i' = 1
    /\ pc' = "loop"
    /\ UNCHANGED <<caller, config_names, tool_order, globals, saved, error, retcode, invoked, returned,
                   pre_globals>>
    /\ UNCHANGED <<isortVars, findVars, writeVars>>

\* the for loop is exhausted: return results
LoopDone ==
    /\ pc = "loop"
    /\ i > Len(order)
    /\ pc' = "done"
    /\ UNCHANGED <<mainVars, isortVars, findVars, writeVars>>

\* run_tool(tool): TOOL_RUNNERS[tool] raises KeyError
RunToolUnregistered ==
    /\ pc = "loop"
    /\ i <= Len(order)
    /\ order[i] \notin DOMAIN TOOL_RUNNERS
    /\ pc' = "aborted"
    /\ error' = "KeyError"
    /\ UNCHANGED <<caller, config_names, tool_order, order, i, results, globals, saved, retcode, invoked,
                   returned, pre_globals>>
    /\ UNCHANGED <<isortVars, findVars, writeVars>>

\* run_tool(tool): the runner is constructed and run() is entered, up to the call
\* of the wrapped tool (for ISortRunner, up to the loop over isort_files.find,
\* where nothing is substituted yet); valid is whether
\* PyupgradeRunner._validate_config accepts the configured min_version
RunToolEnter(valid) ==
    /\ pc = "loop"
    /\ i <= Len(order)
    /\ order[i] \in DOMAIN TOOL_RUNNERS
    /\ invoked' = Append(invoked, order[i])
    /\ pre_globals' = globals
    /\ IF order[i] = "PYUPGRADE" /\ ~valid
       THEN /\ pc' = "aborted"
            /\ error' = "ValueError"
            /\ UNCHANGED <<globals, saved>>
       ELSE IF order[i] = "ISORT"
       THEN /\ pc' = "isort_loop"
            /\ UNCHANGED <<globals, saved, error>>
       ELSE /\ pc' = "plugin"
            /\ saved' = Saved(order[i], globals)
            /\ globals' = Installed(order[i], globals)
            /\ UNCHANGED error
    /\ UNCHANGED <<caller, config_names, tool_order, order, i, results, retcode, returned>>
    /\ UNCHANGED <<isortVars, findVars, writeVars>>

\* run() leaves with outcome (a ToolResult or the name of an exception) and
\* run_tool and the loop body finish; ISortRunner.run has nothing to put back
\* outside its isort_file calls
PluginLeaves(outcome) ==
    /\ globals' = IF order[i] = "ISORT" THEN globals ELSE Released(order[i], globals, saved)
    /\ saved' = NoSaved
    /\ IF outcome \in ToolResult
       THEN /\ results' = DictSet(results, order[i], outcome)
            /\ returned' = Append(returned, order[i])
            /\ i' = NextPosition(i, outcome)
            /\ pc' = "loop"
            /\ UNCHANGED error
       ELSE /\ pc' = "aborted"
            /\ error' = outcome
            /\ UNCHANGED <<results, returned, i>>
    /\ UNCHANGED <<caller, config_names, tool_order, order, retcode, invoked, pre_globals>>
    /\ UNCHANGED <<findVars, writeVars>>

\* the wrapped tool of a runner other than ISortRunner ends
PluginEnd(end) ==
    /\ pc = "plugin"
    /\ PluginLeaves(RunnerEnd(order[i], end))
    /\ UNCHANGED isortVars

\* ISortRunner.run has returned to run_tool: the outcome is recorded and the
\* locals of run() are gone
PluginEndISort ==
    /\ pc = "isort_done"
    /\ i \in 1..Len(order)
    /\ PluginLeaves(isort_ret)
    /\ isort_results' = {}
    /\ isort_file' = 0
    /\ isort_ret' = ""
    /\ isort_calls' = 0
    /\ isort_evals' = {}

\* main, after run_all_tools() has returned
MainExit ==
    /\ pc = "done"
    /\ caller = "main"
    /\ retcode' = RetCode(results)
    /\ pc' = "exited"
    /\ UNCHANGED <<caller, config_names, tool_order, order, i, results, globals, saved, error, invoked,
                   returned, pre_globals>>
    /\ UNCHANGED <<isortVars, findVars, writeVars>>

(***************************************************************************)
(* SpecISort: ISortRunner.run, file by file                                *)
(***************************************************************************)
InitISort ==
    /\ pc = "isort_loop"
    /\ MainIdle
    /\ globals = InitialGlobals
    /\ saved = NoSaved
    /\ ISortIdle
    /\ WriteIdle
    /\ FindIdle

\* isort_files.find yields file: patch("sys.stdout", isort_logger) is entered and
\* isort_file(file) is called
ISortOpenFile(file) ==
    /\ pc = "isort_loop"
    /\ isort_file' = file
    /\ saved' = Saved("ISORT", globals)
    /\ globals' = Installed("ISORT", globals)
    /\ pc' = "isort_in_file"
    /\ UNCHANGED <<isort_results, isort_ret, isort_calls, isort_evals>>
    /\ UNCHANGED <<caller, config_names, tool_order, order, i, results, error, retcode, invoked, returned,
                   pre_globals>>
    /\ UNCHANGED <<findVars, writeVars>>

\* isort_file(file) returns, or raises an Exception with message msg: the patch is
\* left and the ISortResult is added to results
ISortCloseFile(raised, msg) ==
    /\ pc = "isort_in_file"
    /\ globals' = Released("ISORT", globals, saved)
    /\ saved' = NoSaved
    /\ isort_results' = isort_results \cup {ISortResult(isort_file, raised, msg)}
    /\ isort_evals' = isort_evals \cup {<<isort_file, raised>>}
    /\ isort_calls' = isort_calls + 1
    /\ isort_file' = 0
    /\ pc' = "isort_loop"
    /\ UNCHANGED isort_ret
    /\ UNCHANGED <<caller, config_names, tool_order, order, i, results, error, retcode, invoked, returned,
                   pre_globals>>
    /\ UNCHANGED <<findVars, writeVars>>

\* isort_files.find is exhausted: the failures are counted and run() returns
ISortReturn ==
    /\ pc = "isort_loop"
    /\ isort_ret' = ISortOutcome(isort_results)
    /\ pc' = "isort_done"
    /\ UNCHANGED <<isort_results, isort_file, isort_calls, isort_evals>>
    /\ UNCHANGED <<mainVars, findVars, writeVars>>

\* isort_file(file) raises an exception that `except Exception` does not catch:
\* the patch is left, no ISortResult is added and the exception leaves run(),
\* run_tool and run_all_tools
ISortInterrupted(ex) ==
    /\ pc = "isort_in_file"
    /\ globals' = Released("ISORT", globals, saved)
    /\ saved' = NoSaved
    /\ isort_calls' = isort_calls + 1
    /\ isort_file' = 0
    /\ error' = ex
    /\ pc' = "aborted"
    /\ UNCHANGED <<isort_results, isort_ret, isort_evals>>
    /\ UNCHANGED <<caller, config_names, tool_order, order, i, results, retcode, invoked, returned,
                   pre_globals>>
    /\ UNCHANGED <<findVars, writeVars>>

NextISort ==
    \/ pc = "isort_loop" /\ isort_calls < MaxFiles /\ \E file \in Files : ISortOpenFile(file)
    \/ ISortCloseFile(FALSE, "")
    \/ \E msg \in ErrMsgs : ISortCloseFile(TRUE, msg)
    \/ \E ex \in UncaughtByExcept : ISortInterrupted(ex)
    \/ ISortReturn

SpecISort == InitISort /\ [][NextISort]_vars

(***************************************************************************)
(* Spec: the steps of the orchestrator and of the plugins                  *)
(***************************************************************************)
\* the inputs: what a configuration lists under tool_order, and the orders a direct
\* user of Multilint gives to run_all_tools, on an instance configured with at most
\* one name (the given order replaces the configured one whatever its length)
ConfiguredOrders == SeqsUpTo(ConfigNames, MaxOrder)
GivenOrders == SeqsUpTo(Tool, MaxOrder)
ApiConfiguredOrders == {names \in ConfiguredOrders : Len(names) <= 1}
\* an ISortRunner run by run_all_tools is given distinct files, and the exceptions
\* it catches have no attribute message (SpecISort covers repeated files and
\* messages)
RunErrMsgs == {""}

Next ==
    \/ pc = "start" /\ \E names \in ConfiguredOrders : Construct(names, "main")
    \/ pc = "start" /\ \E names \in ApiConfiguredOrders : Construct(names, "api")
    \/ pc = "constructed" /\ caller = "main" /\ RunAllTools(<<>>)
    \/ pc = "constructed" /\ caller = "api" /\ \E o \in GivenOrders : RunAllTools(<<o>>)
    \/ LoopDone
    \/ RunToolUnregistered
    \/ \E valid \in BOOLEAN : RunToolEnter(valid)
    \/ pc = "plugin" /\ \E end \in ToolEnds : PluginEnd(end)
    \/ pc = "isort_loop" /\ isort_calls < MaxRunFiles /\ ISortOpenFile(isort_calls + 1)
    \/ ISortCloseFile(FALSE, "")
    \/ \E msg \in RunErrMsgs : ISortCloseFile(TRUE, msg)
    \/ \E ex \in UncaughtByExcept : ISortInterrupted(ex)
    \/ ISortReturn
    \/ PluginEndISort
    \/ MainExit

Spec == Init /\ [][Next]_vars

(***************************************************************************)
(* SpecFind: find_pyproject_toml, call by call                             *)
(***************************************************************************)
InitFind ==
    /\ pc = "find_call"
    /\ MainIdle
    /\ globals = InitialGlobals
    /\ saved = NoSaved
    /\ ISortIdle
    /\ WriteIdle
    /\ fs \in [Depths -> Entries]
    /\ find_start \in [depth : Depths, form : PathForms]
    /\ find_path = find_start
    /\ find_ret = FindNone
    /\ examined = <<>>

\* if path == Path("/"): return None
FindAtRoot ==
    /\ pc = "find_call"
    /\ IsRootPath(find_path)
    /\ find_ret' = FindNone
    /\ pc' = "find_done"
    /\ UNCHANGED <<fs, find_start, find_path, examined>>
    /\ UNCHANGED <<mainVars, isortVars, writeVars>>

\* if filepath.exists() and filepath.is_file(): return path / PYPROJECT_TOML_FILENAME
FindHit ==
    /\ pc = "find_call"
    /\ ~IsRootPath(find_path)
    /\ HasConfigFile(fs, find_path)
    /\ find_ret' = FindFound(find_path.depth)
    /\ examined' = Append(examined, find_path.depth)
    /\ pc' = "find_done"
    /\ UNCHANGED <<fs, find_start, find_path>>
    /\ UNCHANGED <<mainVars, isortVars, writeVars>>

\* return find_pyproject_toml(path.resolve().parent)
FindRecurse ==
    /\ pc = "find_call"
    /\ ~IsRootPath(find_path)
    /\ ~HasConfigFile(fs, find_path)
    /\ find_path' = ResolvedParent(find_path)
    /\ examined' = IF find_path.form = "relfile" THEN examined
                   ELSE Append(examined, find_path.depth)
    /\ UNCHANGED <<pc, fs, find_start, find_ret>>
    /\ UNCHANGED <<mainVars, isortVars, writeVars>>

NextFind == FindAtRoot \/ FindHit \/ FindRecurse

SpecFind == InitFind /\ [][NextFind]_vars


(***************************************************************************)
(* SpecWrite: the writes to one TextIOLogger                               *)
(***************************************************************************)
InitWrite ==
    /\ pc = "write"
    /\ MainIdle
    /\ globals = InitialGlobals
    /\ saved = NoSaved
    /\ ISortIdle
    /\ FindIdle
    /\ io_level \in LogLevels
    /\ io_records = <<>>
    /\ io_ret = 0
    /\ io_written = <<>>

\* TextIOLogger.write(msg)
Write(msg) ==
    /\ pc = "write"
    /\ TextCost(io_written) + Len(msg) + 1 <= MaxText
    /\ io_records' = io_records \o
           [k \in 1..Len(LoggedLines(msg)) |-> LogRecord(io_level, LoggedLines(msg)[k])]
    /\ io_ret' = WriteReturn(msg)
    /\ io_written' = Append(io_written, msg)
    /\ UNCHANGED <<pc, io_level>>
    /\ UNCHANGED <<mainVars, isortVars, findVars>>

\* the chunks of n characters
Chunks(n) == [1..n -> Chars]

NextWrite ==
    pc = "write" /\ \E n \in 0..(MaxText - 1 - TextCost(io_written)) :
                        \E msg \in Chunks(n) : Write(msg)

SpecWrite == InitWrite /\ [][NextWrite]_vars

(***************************************************************************)
(* Properties                                                              *)
(***************************************************************************)
\* a runner's run() is in progress
InPlugin == pc \in {"plugin", "isort_loop", "isort_in_file", "isort_done"}
Running == pc \in {"loop", "done", "exited"} \/ InPlugin
Finished == pc \in {"done", "exited"}

IsPrefix(s, t) == Len(s) <= Len(t) /\ \A k \in 1..Len(s) : s[k] = t[k]

\* the elements of s, each at the place of its first occurrence
RECURSIVE FirstOccurrences(_)
FirstOccurrences(s) ==
    IF Len(s) = 0 THEN <<>>
    ELSE LET front == FirstOccurrences(SubSeq(s, 1, Len(s) - 1))
         IN  IF s[Len(s)] \in Range(front) THEN front ELSE Append(front, s[Len(s)])

EntriesOf(d, key) == {k \in 1..Len(d) : d[k][1] = key}

\* C1: a run over an order of registered tools whose plugins all return ends with a
\* report whose key set is exactly the set of the tools of the order, holding
\* exactly one outcome for every tool that was invoked; and whatever a plugin
\* returns (FAILURE and SUCCESS_PARTIAL included), the loop moves on to the next
\* tool, so that at the end every tool of the order was invoked and recorded.
C1_ReportCoversPlan ==
    /\ Running => /\ DictKeySet(results) = Range(returned)
                  /\ \A t \in Range(returned) : Cardinality(EntriesOf(results, t)) = 1
    /\ pc = "loop" => i = Len(returned) + 1
    /\ Finished => /\ DictKeySet(results) = Range(order)
                   /\ Range(invoked) = Range(order)
                   /\ \A t \in Range(invoked) : Cardinality(EntriesOf(results, t)) = 1
                   /\ Len(returned) = Len(order)

\* a finished run over an order with a repeated tool, in which a tool returned
\* FAILURE and another SUCCESS_PARTIAL before the last tool was run
C1_Witness ==
    /\ pc = "done"
    /\ Len(order) = 3
    /\ order[1] = order[3]
    /\ order[2] = "PYDOCSTYLE"
    /\ DictGet(results, "PYDOCSTYLE") = "SUCCESS_PARTIAL"
    /\ DictGet(results, order[1]) = "FAILURE"
    /\ Len(results) = 2

\* C2: the plugins are invoked one at a time and in plan order: the k-th call of a
\* run() is for the k-th element of the order, a call starts only when every earlier
\* one has returned, no tool outside the order is invoked, none is invoked again,
\* and the report lists the tools in the order of the plan (a repeated tool at the
\* place of its first occurrence).
C2_SequentialInOrder ==
    Running =>
        /\ IsPrefix(invoked, order)
        /\ IsPrefix(returned, invoked)
        /\ InPlugin => Len(invoked) = Len(returned) + 1 /\ i = Len(invoked)
        /\ ~InPlugin => Len(invoked) = Len(returned)
        /\ DictKeys(results) = FirstOccurrences(returned)
        /\ Finished => invoked = order /\ DictKeys(results) = FirstOccurrences(order)

\* the second plugin of three is running after the first returned FAILURE
C2_Witness ==
    /\ pc = "plugin"
    /\ Len(order) = 3
    /\ order[1] # order[2]
    /\ order[3] = order[1]
    /\ invoked = SubSeq(order, 1, 2)
    /\ results = <<<<order[1], "FAILURE">>>>

\* C3: main's exit status is 0 exactly when every outcome of the report is
\* SUCCESS; a FAILURE or a SUCCESS_PARTIAL of any tool makes it non-zero.
C3_ExitStatus ==
    pc = "exited" =>
        /\ retcode \in {0, 1}
        /\ retcode = 0 <=> \A k \in 1..Len(results) : results[k][2] = "SUCCESS"
        /\ (\E k \in 1..Len(results) : results[k][2] \in {"FAILURE", "SUCCESS_PARTIAL"})
               => retcode # 0

\* main exits non-zero on a report whose only non-SUCCESS outcome is SUCCESS_PARTIAL
C3_Witness ==
    /\ pc = "exited"
    /\ retcode = 1
    /\ \E k \in 1..Len(results) : results[k][2] = "SUCCESS_PARTIAL"
    /\ \A k \in 1..Len(results) : results[k][2] # "FAILURE"

\* the files isort_file was called on, and those on which it raised
EvaluatedFiles == {e[1] : e \in isort_evals}
FailedFiles == {e[1] : e \in {x \in isort_evals : x[2]}}
\* no file was evaluated twice with different results
EvaluationsAgree == \A f \in EvaluatedFiles : ~(<<f, TRUE>> \in isort_evals /\ <<f, FALSE>> \in isort_evals)

\* C4: ISortRunner.run over n >= 1 files of which k fail returns SUCCESS when
\* k = 0, SUCCESS_PARTIAL when 0 < k < n and FAILURE when k = n; every failure is
\* recorded for its file and the evaluation goes on with the remaining files.
C4_PerFileOutcome ==
    /\ \A e \in isort_evals :
          \E r \in isort_results :
              r.pyfile = e[1] /\ r.result = (IF e[2] THEN "FAILURE" ELSE "SUCCESS")
    /\ \A r \in isort_results : <<r.pyfile, r.result = "FAILURE">> \in isort_evals
    /\ pc = "isort_in_file" => isort_ret = ""
    /\ (pc = "isort_done" /\ Cardinality(EvaluatedFiles) >= 1 /\ EvaluationsAgree) =>
          LET n == Cardinality(EvaluatedFiles)
              k == Cardinality(FailedFiles)
          IN  /\ k = 0 => isort_ret = "SUCCESS"
              /\ (0 < k /\ k < n) => isort_ret = "SUCCESS_PARTIAL"
              /\ k = n => isort_ret = "FAILURE"

\* 2 of 5 files failed, a failure was followed by further evaluations, and the
\* run returned SUCCESS_PARTIAL
C4_Witness ==
    /\ pc = "isort_done"
    /\ Cardinality(EvaluatedFiles) = 5
    /\ Cardinality(FailedFiles) = 2
    /\ isort_calls = 5
    /\ isort_ret = "SUCCESS_PARTIAL"

\* C5: ISortRunner.run over zero files returns SUCCESS.
C5_ZeroFilesIsSuccess ==
    (pc = "isort_done" /\ isort_calls = 0) => isort_ret = "SUCCESS"

\* C6: when the order of a run holds a tool with no entry in TOOL_RUNNERS, at
\* whatever position, the run is aborted by an error before any plugin of that
\* order executes.
C6_UnregisteredAbortsBeforeAnyPlugin ==
    ((Running \/ pc = "aborted")
        /\ \E k \in 1..Len(order) : order[k] \notin DOMAIN TOOL_RUNNERS)
    => /\ invoked = <<>>
       /\ pc \in {"loop", "aborted"}
       /\ pc = "aborted" => error = "KeyError"

\* C7: a configured tool_order holding, at any position, a name that is the value
\* of no member of Tool makes the construction of Multilint fail with an error:
\* no plugin is ever invoked and no report with an entry exists.
C7_UnknownNameFailsConstruction ==
    (pc # "start" /\ \E k \in 1..Len(config_names) : config_names[k] \notin {ToolValue[t] : t \in Tool})
    => /\ pc = "aborted"
       /\ error = "ValueError"
       /\ invoked = <<>>
       /\ results = <<>>
       /\ tool_order = <<>>

\* the construction failed on a list whose last name only is unknown
C7_Witness ==
    /\ pc = "aborted"
    /\ Len(config_names) = 3
    /\ config_names[1] = "black"
    /\ config_names[2] = "mypy"
    /\ config_names[3] = "flake8"

\* C8: find_pyproject_toml, from any starting directory, examines that directory
\* and then each ancestor up to and including the root, returns the file of the
\* nearest of them that has one, and returns None when none has.
C8_NearestUpToRoot ==
    (pc = "find_done" /\ find_start.form \in {"abs", "rel"}) =>
        LET chain == 0..find_start.depth
            hits == {d \in chain : fs[d] = "file"}
            nearest == CHOOSE d \in hits : \A e \in hits : e <= d
            last == IF hits = {} THEN 0 ELSE nearest
        IN  /\ IF hits = {} THEN find_ret = FindNone ELSE find_ret = FindFound(nearest)
            /\ examined = [k \in 1..(find_start.depth - last + 1) |-> find_start.depth - k + 1]

Position(s, x) == CHOOSE k \in 1..Len(s) : s[k] = x

\* C9: the plan of a constructed Multilint is the configured tool_order, name for
\* name and in the same order, when it is not empty, and the built-in order
\* otherwise; in the built-in order pyupgrade and autoflake come before mypy and
\* pylint, and every rewriting tool (pyupgrade, autoflake, isort, black) comes
\* before every reporting tool (mypy, pylint, pydocstyle).
C9_ExecutionPlan ==
    (pc = "constructed" \/ Running) =>
        /\ Len(config_names) > 0 =>
              /\ Len(tool_order) = Len(config_names)
              /\ \A k \in 1..Len(config_names) : ToolValue[tool_order[k]] = config_names[k]
        /\ Len(config_names) = 0 =>
              /\ Range(tool_order) = {"PYUPGRADE", "AUTOFLAKE", "ISORT", "BLACK",
                                      "MYPY", "PYLINT", "PYDOCSTYLE"}
              /\ Len(tool_order) = 7
              /\ \A w \in {"PYUPGRADE", "AUTOFLAKE", "ISORT", "BLACK"} :
                    \A r \in {"MYPY", "PYLINT", "PYDOCSTYLE"} :
                        Position(tool_order, w) < Position(tool_order, r)
        /\ (caller = "main" /\ pc # "constructed") => order = tool_order

\* a configured order that reverses the built-in one is kept as written
C9_Witness ==
    /\ pc = "constructed"
    /\ config_names = <<"pylint", "mypy", "pyupgrade">>
    /\ tool_order = <<"PYLINT", "MYPY", "PYUPGRADE">>

\* C10: once a plugin's run() is over, by a return or by an exception, sys.stdout,
\* sys.stderr and pydocstyle's loggers hold the values they had just before the
\* call: no capture adapter stays installed between two invocations.
C10_GlobalsRestored ==
    ~InPlugin =>
        /\ globals = pre_globals
        /\ globals.stdout = "sys.stdout"
        /\ globals.stderr = "sys.stderr"
        /\ globals.utils_log = "pydocstyle.log"
        /\ globals.checker_log = "pydocstyle.log"
        /\ saved = NoSaved

\* BlackRunner returned and PydocstyleRunner, run after it, was left by an
\* exception
C10_Witness ==
    /\ pc = "aborted"
    /\ error = "SystemExit"
    /\ invoked = <<"BLACK", "PYDOCSTYLE">>
    /\ returned = <<"BLACK">>
    /\ globals = InitialGlobals


\* the places of msg where a newline-delimited segment that is not empty starts,
\* and the place where the segment starting at s ends
SegmentStarts(msg) ==
    {s \in 1..Len(msg) : msg[s] # "\n" /\ (s = 1 \/ msg[s - 1] = "\n")}
SegmentEnd(msg, s) ==
    CHOOSE e \in s..Len(msg) :
        /\ \A k \in s..e : msg[k] # "\n"
        /\ e = Len(msg) \/ msg[e + 1] = "\n"

\* the non-empty segments of msg that start at or after place from, in order
RECURSIVE SegmentsFrom(_, _)
SegmentsFrom(msg, from) ==
    LET starts == {s \in SegmentStarts(msg) : s >= from}
    IN  IF starts = {} THEN <<>>
        ELSE LET s == CHOOSE x \in starts : \A y \in starts : x <= y
             IN  <<SubSeq(msg, s, SegmentEnd(msg, s))>> \o SegmentsFrom(msg, s + 1)

\* the records due for a sequence of writes: for each chunk in turn, one record
\* per non-empty segment
RECURSIVE RecordsDue(_, _)
RecordsDue(chunks, level) ==
    IF Len(chunks) = 0 THEN <<>>
    ELSE LET segs == SegmentsFrom(Head(chunks), 1)
         IN  [k \in 1..Len(segs) |-> [level |-> level, msg |-> segs[k]]]
                 \o RecordsDue(Tail(chunks), level)

\* C11: TextIOLogger.write emits exactly one record per non-empty newline-delimited
\* segment of the chunk, in the order of the segments and at the level the logger
\* was constructed with, and none for an empty segment ("" and "\n" emit nothing,
\* "a\nb\n" emits "a" then "b"); over a sequence of writes the records are in the
\* order of the writes.
C11_OneRecordPerSegment ==
    pc = "write" =>
        /\ io_records = RecordsDue(io_written, io_level)
        /\ \A k \in 1..Len(io_records) :
              io_records[k].level = io_level /\ Len(io_records[k].msg) > 0
        /\ (\A k \in 1..Len(io_written) : io_written[k] \in {<<>>, <<"\n">>})
              => io_records = <<>>
        /\ io_written = << <<"a", "\n", "b", "\n">> >>
              => io_records = <<[level |-> io_level, msg |-> <<"a">>],
                                [level |-> io_level, msg |-> <<"b">>]>>

\* "b" was written, then "a\nb\n": the records are "b", "a", "b" at WARNING
C11_Witness ==
    /\ pc = "write"
    /\ io_level = 30
    /\ io_written = << <<"b">>, <<"a", "\n", "b", "\n">> >>
    /\ io_records = <<[level |-> 30, msg |-> <<"b">>],
                      [level |-> 30, msg |-> <<"a">>],
                      [level |-> 30, msg |-> <<"b">>]>>

====
